---- MODULE Spec2Model ----
(***************************************************************************)
(* playlist-gen: the Spotify synchronisation engine (app/spotify/          *)
(* spotifyApi.ts) and the smart-label criteria compiler                    *)
(* (app/tracks/components/TrackList.tsx) as a state machine.              *)
(*                                                                         *)
(* One step of the model is one stretch of JavaScript between two awaits:  *)
(* the event loop runs such a stretch to its end before any other promise  *)
(* continuation runs.                                                      *)
(***************************************************************************)
EXTENDS Integers, Sequences, FiniteSets, TLC

VARIABLES
    now,          \* the wall clock (seconds)
    user,         \* the in-memory User object the operation was called with
    dbUser,       \* the persisted User row: [accessToken, accessTokenExpiresAt]
    issued,       \* number of access tokens the token endpoint has issued
    op,           \* the operation invoked: "none", "pull", "push"
    status,       \* its promise: "idle", "running", "done", "failed"
    task,         \* per async task: its position and its spotifyFetch call
    label,        \* the Label rows: [present, smartCriteria, tracks]
    dbPlaylist,   \* the Playlist rows: label id -> external playlist id (0: none)
    remote,       \* the external service's playlists: id -> track ids
    calls,        \* per label: the playlist-tracks calls issued for its playlist
    pull,         \* syncFavoriteTracks' locals: offset, limit, page, ...
    store,        \* the local Album, Artist and Track rows
    crit,         \* the criteria editor: the string and what the compiler said
    run           \* the invocation: its number, what it started from, its calls

vars == <<now, user, dbUser, issued, op, status, task, label, dbPlaylist,
          remote, calls, pull, store, crit, run>>

(***************************************************************************)
(* Bounds of the model.                                                    *)
(***************************************************************************)
\* Number of labels of the user.
MaxLabels == 2
\* Number of tracks in the user's local store.
MaxTracks == 51
\* Number of times the clock advances during an invocation.
MaxTicks == 1
\* Number of access tokens the token endpoint issues during an invocation.
MaxIssued == 2
\* Longest favourites feed of the pulls from a partly filled store.
MaxFeed == 31
\* Longest criteria string (in tokens) the criteria editor enumerates.
MaxCriteriaLen == 3
\* Number of times the pull is invoked, one invocation after the other.
MaxInvocations == 2

(***************************************************************************)
(* The criteria language.  A criteria string is modelled after lexing, as  *)
(* a sequence of lexemes; "badstr" is a string literal with no closing     *)
(* quote and "bogus" an identifier that is no track attribute.             *)
(***************************************************************************)
Tokens == {"explicit", "artist", "bogus", "=", "true", "false", "str",
           "badstr", "and", "or", "not", "(", ")"}

\* null, and the value of result.result when result.success is false
Null == [op |-> "null"]
Undefined == [op |-> "undefined"]

Fail == [ok |-> FALSE, node |-> Undefined, pos |-> 0]

Tok(toks, i) == IF i <= Len(toks) THEN toks[i] ELSE "eof"

\* comparison: explicit = true | explicit = false | artist = "..."
ParseCmp(toks, i) ==
    IF Tok(toks, i) = "explicit" /\ Tok(toks, i + 1) = "="
          /\ Tok(toks, i + 2) \in {"true", "false"}
    THEN [ok |-> TRUE,
          node |-> [op |-> "explicit", value |-> Tok(toks, i + 2)],
          pos |-> i + 3]
    ELSE IF Tok(toks, i) = "artist" /\ Tok(toks, i + 1) = "="
          /\ Tok(toks, i + 2) = "str"
    THEN [ok |-> TRUE, node |-> [op |-> "artist", value |-> "X"], pos |-> i + 3]
    ELSE Fail

RECURSIVE ParseOr(_, _), ParseOrRest(_, _), ParseAnd(_, _), ParseAndRest(_, _),
          ParseNot(_, _), ParseAtom(_, _)

\* atom: ( or ) | comparison
ParseAtom(toks, i) ==
    IF Tok(toks, i) = "("
    THEN LET inner == ParseOr(toks, i + 1)
         IN  IF inner.ok /\ Tok(toks, inner.pos) = ")"
             THEN [inner EXCEPT !.pos = inner.pos + 1]
             ELSE Fail
    ELSE ParseCmp(toks, i)

\* not binds tightest
ParseNot(toks, i) ==
    IF Tok(toks, i) = "not"
    THEN LET arg == ParseNot(toks, i + 1)
         IN  IF arg.ok
             THEN [ok |-> TRUE, node |-> [op |-> "NOT", arg |-> arg.node],
                   pos |-> arg.pos]
             ELSE Fail
    ELSE ParseAtom(toks, i)

ParseAndRest(toks, left) ==
    IF Tok(toks, left.pos) = "and"
    THEN LET right == ParseNot(toks, left.pos + 1)
         IN  IF right.ok
             THEN ParseAndRest(toks,
                      [ok |-> TRUE,
                       node |-> [op |-> "AND", l |-> left.node, r |-> right.node],
                       pos |-> right.pos])
             ELSE Fail
    ELSE left

\* and binds tighter than or
ParseAnd(toks, i) ==
    LET first == ParseNot(toks, i)
    IN  IF first.ok THEN ParseAndRest(toks, first) ELSE Fail

ParseOrRest(toks, left) ==
    IF Tok(toks, left.pos) = "or"
    THEN LET right == ParseAnd(toks, left.pos + 1)
         IN  IF right.ok
             THEN ParseOrRest(toks,
                      [ok |-> TRUE,
                       node |-> [op |-> "OR", l |-> left.node, r |-> right.node],
                       pos |-> right.pos])
             ELSE Fail
    ELSE left

ParseOr(toks, i) ==
    LET first == ParseAnd(toks, i)
    IN  IF first.ok THEN ParseOrRest(toks, first) ELSE Fail

\* parser.parse(criteria): the whole input must be one expression
ParserParse(criteria) ==
    LET r == ParseOr(criteria, 1)
    IN  IF r.ok /\ r.pos = Len(criteria) + 1
        THEN [success |-> TRUE, result |-> r.node]
        ELSE [success |-> FALSE, result |-> Undefined]

\* A plausible slip: the parser's result handed on without looking at success.
GeneratePrismaFilterUnchecked(criteria) == ParserParse(criteria).result

\* Generate a prisma `where` clause from a criteria string or null if invalid
generatePrismaFilter(criteria) ==
    LET result == ParserParse(criteria)
    IN  IF result.success THEN result.result ELSE Null

\* Return a boolean indicating whether the smart criteria is valid
validateSmartCriteria(criteria) == generatePrismaFilter(criteria) # Null

(***************************************************************************)
(* The local store and the Prisma queries over it.                         *)
(***************************************************************************)
Labels == 1 .. MaxLabels
\* task 0 is the invoked operation itself; task l is the async callback that
\* Promise.all runs for label l (playlist creation, then content push)
Tasks == 0 .. MaxLabels
TrackIds == 1 .. MaxTracks
\* a track saved by another user of the application
ForeignTrack == MaxTracks + 1

\* Track.explicit and "some artist of the track is named X", per external id
Explicit(t) == t > 1
HasArtistX(t) == t % 2 = 0

\* does Track row t satisfy the where clause w
RECURSIVE Matches(_, _)
Matches(w, t) ==
    CASE w.op = "userId"   -> t.userId = w.value
      [] w.op = "explicit" -> Explicit(t.spotifyId) = (w.value = "true")
      [] w.op = "artist"   -> HasArtistX(t.spotifyId)
      [] w.op = "NOT"      -> ~Matches(w.arg, t)
      [] w.op = "AND"      -> Matches(w.l, t) /\ Matches(w.r, t)
      [] w.op = "OR"       -> Matches(w.l, t) \/ Matches(w.r, t)

\* { userId: user.id, ...filter }: spreading null adds no property
Spread(userId, filter) ==
    IF filter = Null
    THEN [op |-> "userId", value |-> userId]
    ELSE [op |-> "AND", l |-> [op |-> "userId", value |-> userId], r |-> filter]

AllIds == [i \in 1 .. MaxTracks + 1 |-> i]
Reverse(s) == [i \in 1 .. Len(s) |-> s[Len(s) + 1 - i]]
\* rows in the store's own order (no orderBy): by external id here
InIdOrder(S) == LET in(x) == x \in S IN SelectSeq(AllIds, in)
\* orderBy: [{ dateAdded: "desc" }]; a later favourite has a larger id
OrderByDateAddedDesc(S) == Reverse(InIdOrder(S))

\* db.track.findMany({ where }) mapped to spotifyId
TrackFindMany(w) ==
    InIdOrder({r.spotifyId : r \in {x \in store.tracks : Matches(w, x)}})

\* lodash chunk(array, size)
Min(a, b) == IF a < b THEN a ELSE b
Chunk(array, size) ==
    [i \in 1 .. ((Len(array) + size - 1) \div size) |->
        SubSeq(array, (i - 1) * size + 1, Min(i * size, Len(array)))]

(***************************************************************************)
(* Token manager and API client.                                           *)
(***************************************************************************)
\* the minute taken off a new token's lifetime
SafetyMargin == 60
\* Send 50 tracks at a time
ChunkSize == 50
\* dummyTrackSpotifyId "41MCdlvXOl62B7Kv86Bb1v", a track outside the store
DummyTrackSpotifyId == 0
\* the clock starts at TickSeconds and advances MaxTicks times by as much
TickSeconds == SafetyMargin
MaxTime == TickSeconds * (MaxTicks + 1)
\* the lifetimes (expires_in) the token endpoint hands out
ExpiresIn == {SafetyMargin, 3600}

\* `spotify:track:${spotifyId}`
Uri(spotifyId) == <<"spotify:track", spotifyId>>
Uris(spotifyIds) == [i \in 1 .. Len(spotifyIds) |-> Uri(spotifyIds[i])]
\* the service reading a track URI
TrackOfUri(uri) == uri[2]

NoToken == 0 - 1

IdleTask ==
    [pc |-> "idle", kind |-> "none", uris |-> <<>>, chunk |-> 0,
     tracks |-> <<>>, sawExpired |-> FALSE, tokenAtCall |-> NoToken,
     refreshes |-> 0, requests |-> 0, carried |-> NoToken,
     fields |-> [accessToken |-> NoToken, accessTokenExpiresAt |-> 0],
     response |-> "none", returned |-> FALSE,
     accepted |-> [kind |-> "none", body |-> "none"], err |-> "none",
     queryFailed |-> FALSE, playlistId |-> 0]

\* new Date() > user.accessTokenExpiresAt
Expired == now > user.accessTokenExpiresAt

\* the request leaves with the Authorization header set from the user object
SendRequest(tk, accessToken) ==
    [tk EXCEPT !.pc = "api", !.requests = @ + 1, !.carried = accessToken]

\* A plausible slip: the expiry is never looked at.
SpotifyFetchWithoutRefresh(tk, kind, uris) ==
    SendRequest([tk EXCEPT !.kind = kind, !.uris = uris,
                           !.sawExpired = Expired,
                           !.tokenAtCall = user.accessToken,
                           !.refreshes = 0, !.requests = 0,
                           !.response = "none", !.returned = FALSE],
                user.accessToken)

\* spotifyFetch(user, req) up to its first await: the call of task record tk
\* either starts refreshAccessToken (the token request is sent) or sends req
spotifyFetch(tk, kind, uris) ==
    LET call == [tk EXCEPT !.kind = kind, !.uris = uris,
                           !.sawExpired = Expired,
                           !.tokenAtCall = user.accessToken,
                           !.refreshes = 0, !.requests = 0,
                           !.carried = NoToken,
                           !.response = "none", !.returned = FALSE]
    IN  IF Expired
        THEN [call EXCEPT !.pc = "token", !.refreshes = 1]
        ELSE SendRequest(call, user.accessToken)

\* A plausible slip: the upload loop does not await its calls, so the call
\* of the next chunk leaves along with this one.
LoggedWithoutAwait(t, tk) ==
    IF tk.pc = "api" /\ tk.kind \in {"replace", "append", "remove"}
    THEN [calls EXCEPT ![t] =
             Append(@, [method |-> tk.kind, uris |-> tk.uris])
             \o (IF tk.kind # "remove"
                    /\ tk.chunk * ChunkSize < Len(tk.tracks)
                 THEN <<[method |-> "append",
                         uris |-> Uris(SubSeq(tk.tracks, tk.chunk * ChunkSize + 1,
                                     Min((tk.chunk + 1) * ChunkSize,
                                         Len(tk.tracks))))]>>
                 ELSE <<>>)]
    ELSE calls

\* a playlist-tracks request that has left is one more call for the playlist
Logged(t, tk) ==
    IF tk.pc = "api" /\ tk.kind \in {"replace", "append", "remove"}
    THEN [calls EXCEPT ![t] = Append(@, [method |-> tk.kind, uris |-> tk.uris])]
    ELSE calls

\* a request that leaves when the operation's promise has been rejected
\* already is one more late request of the invocation
Late(r, tk) ==
    IF status = "failed" /\ tk.pc = "api"
    THEN [r EXCEPT !.late = @ + 1]
    ELSE r

\* a playlist-create request that has left is one more creation for the label
Created(t, tk) ==
    IF tk.pc = "api" /\ tk.kind = "create"
    THEN [run EXCEPT !.creates[t] = @ + 1]
    ELSE run

\* an error thrown in task t rejects t's promise, and with it the operation's
\* promise if that is still pending
Throw(t, err) ==
    /\ task' = [task EXCEPT ![t].pc = "failed", ![t].err = err]
    /\ status' = IF status = "running" THEN "failed" ELSE status

\* the clock moves on
Tick ==
    /\ now + TickSeconds <= MaxTime
    /\ now' = now + TickSeconds
    /\ UNCHANGED <<user, dbUser, issued, op, status, task, label, dbPlaylist,
                   remote, calls, pull, store, crit, run>>

\* A plausible slip: a rejected refresh is tried once more.
TokenRejectedRetried(t) ==
    /\ task[t].pc = "token" /\ task[t].refreshes = 1
    /\ task' = [task EXCEPT ![t].refreshes = @ + 1]
    /\ UNCHANGED <<now, user, dbUser, issued, op, status, label, dbPlaylist,
                   remote, calls, pull, store, crit, run>>

\* refreshAccessToken: the token endpoint rejects the refresh token; the body
\* has no access_token, so TokenResponse.parse throws
TokenRejected(t) ==
    /\ task[t].pc = "token"
    /\ Throw(t, "token")
    /\ UNCHANGED <<now, user, dbUser, issued, op, label, dbPlaylist, remote,
                   calls, pull, store, crit, run>>

\* refreshAccessToken: the token endpoint issues a token; modifiedFields is
\* computed and db.user.update is sent
TokenIssued(t) ==
    /\ task[t].pc = "token"
    /\ issued < MaxIssued
    /\ \E expiresIn \in ExpiresIn :
          task' = [task EXCEPT
                     ![t].pc = "dbwrite",
                     ![t].fields =
                        [accessToken |-> issued + 1,
                         accessTokenExpiresAt |->
                             now + (expiresIn - SafetyMargin)]]
    /\ issued' = issued + 1
    /\ UNCHANGED <<now, user, dbUser, op, status, label, dbPlaylist, remote,
                   calls, pull, store, crit, run>>

\* the store commits db.user.update
DbUserUpdate(t) ==
    /\ task[t].pc = "dbwrite"
    /\ dbUser' = task[t].fields
    /\ task' = [task EXCEPT ![t].pc = "dbdone"]
    /\ UNCHANGED <<now, user, issued, op, status, label, dbPlaylist, remote,
                   calls, pull, store, crit, run>>

\* db.user.update resolves: Object.assign(user, modifiedFields), then
\* spotifyFetch goes on and sends the request
RefreshDone(t) ==
    /\ task[t].pc = "dbdone"
    /\ user' = task[t].fields
    /\ LET tk == SendRequest(task[t], task[t].fields.accessToken)
       IN  /\ task' = [task EXCEPT ![t] = tk]
           /\ calls' = Logged(t, tk)
           /\ run' = Late(Created(t, tk), tk)
    /\ UNCHANGED <<now, dbUser, issued, op, status, label, dbPlaylist, remote,
                   pull, store, crit>>

\* A plausible slip: a failed request is sent once more.
SpotifyApiErrorRetried(t) ==
    /\ task[t].pc = "api" /\ task[t].requests = 1
    /\ task' = [task EXCEPT ![t] = SendRequest([@ EXCEPT !.response = "error"],
                                                 user.accessToken)]
    /\ UNCHANGED <<now, user, dbUser, issued, op, status, label, dbPlaylist,
                   remote, calls, pull, store, crit, run>>

\* spotifyFetch: the service answers with a non-success status: throw res
SpotifyApiError(t) ==
    /\ task[t].pc = "api"
    /\ task' = [task EXCEPT ![t].pc = "failed", ![t].err = "api",
                            ![t].response = "error"]
    /\ status' = IF status = "running" THEN "failed" ELSE status
    /\ UNCHANGED <<now, user, dbUser, issued, op, label, dbPlaylist, remote,
                   calls, pull, store, crit, run>>

\* the shapes a JSON body of a successful response can have: the documented
\* one, or another
Bodies == {"match", "mismatch"}

(***************************************************************************)
(* syncPlaylists: push the tracks from the database into Spotify playlists *)
(***************************************************************************)
\* Label.smartCriteria of a static label
NullCriteria == <<"null">>
UserId == "me"
\* the labels the user has
UserLabels == {l \in Labels : label[l].present}

\* what an invocation starts from: the rows of the store and the playlist
\* mappings at its start, how the invocation before it ended, and no call yet
Invocation ==
    [n |-> 0, store |-> store, dbPlaylist |-> dbPlaylist,
     creates |-> [l \in Labels |-> 0], answered |-> [l \in Labels |-> 0],
     late |-> 0, prior |-> [status |-> status, pages |-> pull.pages]]

\* A plausible slip: a playlist is created for every label of the user.
StartPushCreatingAll ==
    /\ op = "none"
    /\ op' = "push"
    /\ status' = "running"
    /\ task' = [t \in Tasks |->
                  IF t = 0 THEN [IdleTask EXCEPT !.pc = "provision"]
                  ELSE IF label[t].present
                       THEN spotifyFetch(IdleTask, "create", <<>>)
                       ELSE IdleTask]
    /\ run' = [Invocation EXCEPT
                  !.n = run.n + 1,
                  !.creates = [l \in Labels |->
                                  IF label[l].present /\ ~Expired
                                  THEN 1 ELSE 0]]
    /\ UNCHANGED <<now, user, dbUser, issued, label, dbPlaylist, remote,
                   calls, pull, store, crit>>

\* the first await of syncPlaylists resolves (the labels without a playlist)
\* and the creation callbacks all run up to their spotifyFetch
StartPush ==
    /\ op = "none"
    /\ op' = "push"
    /\ status' = "running"
    /\ task' = [t \in Tasks |->
                  IF t = 0 THEN [IdleTask EXCEPT !.pc = "provision"]
                  ELSE IF label[t].present /\ dbPlaylist[t] = 0
                       THEN spotifyFetch(IdleTask, "create", <<>>)
                       ELSE IdleTask]
    /\ run' = [Invocation EXCEPT
                  !.n = run.n + 1,
                  !.creates = [l \in Labels |->
                                  IF label[l].present /\ dbPlaylist[l] = 0
                                     /\ ~Expired
                                  THEN 1 ELSE 0]]
    /\ UNCHANGED <<now, user, dbUser, issued, label, dbPlaylist, remote,
                   calls, pull, store, crit>>

\* A plausible slip: the body of the create call is used as it comes.
CreateResponseUnparsed(t) ==
    /\ task[t].pc = "api" /\ task[t].kind = "create"
    /\ remote' = Append(remote, <<>>)
    /\ \E body \in Bodies :
          task' = [task EXCEPT ![t].pc = "created",
                               ![t].response = "ok",
                               ![t].returned = TRUE,
                               ![t].accepted =
                                   [kind |-> "create", body |-> body],
                               ![t].playlistId = Len(remote) + 1]
    /\ UNCHANGED <<now, user, dbUser, issued, op, status, label, dbPlaylist,
                   calls, pull, store, crit, run>>

\* the playlist-create call is answered: the playlist exists on the service,
\* and CreatePlaylistResponse.parse reads its id from the body or throws
CreateResponse(t) ==
    /\ task[t].pc = "api" /\ task[t].kind = "create"
    /\ remote' = Append(remote, <<>>)
    /\ \E body \in Bodies :
          IF body = "match"
          THEN /\ task' = [task EXCEPT ![t].pc = "created",
                                       ![t].response = "ok",
                                       ![t].returned = TRUE,
                                       ![t].accepted =
                                           [kind |-> "create", body |-> body],
                                       ![t].playlistId = Len(remote) + 1]
               /\ UNCHANGED status
          ELSE /\ task' = [task EXCEPT ![t].pc = "failed",
                                       ![t].err = "validation",
                                       ![t].response = "ok",
                                       ![t].returned = TRUE]
               /\ status' = IF status = "running" THEN "failed" ELSE status
    /\ UNCHANGED <<now, user, dbUser, issued, op, label, dbPlaylist, calls,
                   pull, store, crit, run>>

\* the chunks a playlist is filled with
UploadChunks(tracks) ==
    Chunk(IF Len(tracks) > 0 THEN tracks ELSE <<DummyTrackSpotifyId>>, ChunkSize)

\* A plausible slip: every chunk is sent as a replace call.
UploadChunkAlwaysPut(tk, index) ==
    spotifyFetch([tk EXCEPT !.chunk = index], "replace",
                 Uris(UploadChunks(tk.tracks)[index]))

\* one turn of the upload loop: PUT for the first chunk, POST for the others
UploadChunk(tk, index) ==
    spotifyFetch([tk EXCEPT !.chunk = index],
                 IF index = 1 THEN "replace" ELSE "append",
                 Uris(UploadChunks(tk.tracks)[index]))

\* the content callback of a playlist, up to its first await
StartContent(l) ==
    IF label[l].smartCriteria # NullCriteria
    THEN [IdleTask EXCEPT !.pc = "query"]
    ELSE UploadChunk([IdleTask EXCEPT
                         !.tracks = OrderByDateAddedDesc(label[l].tracks)], 1)

\* all creations have resolved: db.playlist.createMany, db.playlist.findMany
\* with the labels' tracks, and the content callbacks all start
PushProvisioned ==
    /\ op = "push" /\ status = "running" /\ task[0].pc = "provision"
    /\ \A l \in Labels : task[l].pc \in {"idle", "created"}
    /\ dbPlaylist' = [l \in Labels |->
                        IF task[l].pc = "created" THEN task[l].playlistId
                        ELSE dbPlaylist[l]]
    /\ task' = [t \in Tasks |->
                  IF t = 0 THEN [task[0] EXCEPT !.pc = "content"]
                  ELSE IF label[t].present THEN StartContent(t)
                  ELSE task[t]]
    /\ calls' = [l \in Labels |->
                   IF label[l].present /\ StartContent(l).pc = "api"
                   THEN Append(calls[l], [method |-> StartContent(l).kind,
                                          uris |-> StartContent(l).uris])
                   ELSE calls[l]]
    /\ UNCHANGED <<now, user, dbUser, issued, op, status, label, remote,
                   pull, store, crit, run>>

\* A plausible slip: the query's error is not caught.
SmartQueryThrowsUncaught(l) ==
    /\ op = "push" /\ task[l].pc = "query"
    /\ task' = [task EXCEPT ![l].pc = "failed", ![l].err = "query",
                            ![l].queryFailed = TRUE]
    /\ status' = IF status = "running" THEN "failed" ELSE status
    /\ UNCHANGED <<now, user, dbUser, issued, op, label, dbPlaylist, remote,
                   calls, pull, store, crit, run>>

\* db.track.findMany of a smart label throws: caught and logged, tracks = []
SmartQueryThrows(l) ==
    /\ op = "push" /\ task[l].pc = "query"
    /\ LET tk == UploadChunk([task[l] EXCEPT !.tracks = <<>>,
                                             !.queryFailed = TRUE], 1)
       IN  /\ task' = [task EXCEPT ![l] = tk]
           /\ calls' = Logged(l, tk)
           /\ run' = Late(run, tk)
    /\ UNCHANGED <<now, user, dbUser, issued, op, status, label, dbPlaylist,
                   remote, pull, store, crit>>

\* db.track.findMany of a smart label returns the rows matching
\* { userId: user.id, ...generatePrismaFilter(smartCriteria) }
SmartQueryReturns(l) ==
    /\ op = "push" /\ task[l].pc = "query"
    /\ LET where == Spread(UserId, generatePrismaFilter(label[l].smartCriteria))
           tk == UploadChunk([task[l] EXCEPT !.tracks = TrackFindMany(where)], 1)
       IN  /\ task' = [task EXCEPT ![l] = tk]
           /\ calls' = Logged(l, tk)
           /\ run' = Late(run, tk)
    /\ UNCHANGED <<now, user, dbUser, issued, op, status, label, dbPlaylist,
                   remote, pull, store, crit>>

\* the service carrying out a playlist-tracks request
Applied(list, kind, uris) ==
    LET ids == [i \in 1 .. Len(uris) |-> TrackOfUri(uris[i])]
        kept(x) == \A i \in 1 .. Len(ids) : x # ids[i]
    IN  CASE kind = "replace" -> ids
          [] kind = "append"  -> list \o ids
          [] kind = "remove"  -> SelectSeq(list, kept)

\* what the content callback does once the upload loop has ended:
\* if (playlist.label.tracks.length === 0) remove the dummy track
AfterUploads(l, tk) ==
    IF Cardinality(label[l].tracks) = 0
    THEN spotifyFetch(tk, "remove", <<Uri(DummyTrackSpotifyId)>>)
    ELSE [tk EXCEPT !.pc = "done"]

\* A plausible slip: once the push has been rejected, a callback whose call
\* is answered ends without going on.
UploadResponseCancelled(l) ==
    /\ task[l].pc = "api" /\ task[l].kind \in {"replace", "append"}
    /\ remote' = [remote EXCEPT ![dbPlaylist[l]] =
                      Applied(@, task[l].kind, task[l].uris)]
    /\ \E body \in Bodies :
          LET got == [task[l] EXCEPT
                         !.response = "ok", !.returned = TRUE,
                         !.accepted = [kind |-> task[l].kind, body |-> body]]
              tk == IF status = "failed"
                    THEN [got EXCEPT !.pc = "done"]
                    ELSE IF got.chunk < Len(UploadChunks(got.tracks))
                    THEN UploadChunk(got, got.chunk + 1)
                    ELSE AfterUploads(l, got)
          IN  /\ task' = [task EXCEPT ![l] = tk]
              /\ calls' = Logged(l, tk)
              /\ run' = Late([run EXCEPT !.answered[l] = @ + 1], tk)
    /\ UNCHANGED <<now, user, dbUser, issued, op, status, label, dbPlaylist,
                   pull, store, crit>>

\* a replace or append call is answered with success; its body is not read
UploadResponse(l) ==
    /\ task[l].pc = "api" /\ task[l].kind \in {"replace", "append"}
    /\ remote' = [remote EXCEPT ![dbPlaylist[l]] =
                      Applied(@, task[l].kind, task[l].uris)]
    /\ \E body \in Bodies :
          LET got == [task[l] EXCEPT
                         !.response = "ok", !.returned = TRUE,
                         !.accepted = [kind |-> task[l].kind, body |-> body]]
              tk == IF got.chunk < Len(UploadChunks(got.tracks))
                    THEN UploadChunk(got, got.chunk + 1)
                    ELSE AfterUploads(l, got)
          IN  /\ task' = [task EXCEPT ![l] = tk]
              /\ calls' = Logged(l, tk)
              /\ run' = Late([run EXCEPT !.answered[l] = @ + 1], tk)
    /\ UNCHANGED <<now, user, dbUser, issued, op, status, label, dbPlaylist,
                   pull, store, crit>>

\* the removal call is answered with success; its body is not read
RemoveResponse(l) ==
    /\ task[l].pc = "api" /\ task[l].kind = "remove"
    /\ remote' = [remote EXCEPT ![dbPlaylist[l]] =
                      Applied(@, "remove", task[l].uris)]
    /\ \E body \in Bodies :
          task' = [task EXCEPT ![l].pc = "done", ![l].response = "ok",
                               ![l].returned = TRUE,
                               ![l].accepted =
                                   [kind |-> "remove", body |-> body]]
    /\ run' = [run EXCEPT !.answered[l] = @ + 1]
    /\ UNCHANGED <<now, user, dbUser, issued, op, status, label, dbPlaylist,
                   calls, pull, store, crit>>

\* every content callback has resolved: syncPlaylists resolves
PushDone ==
    /\ op = "push" /\ status = "running" /\ task[0].pc = "content"
    /\ \A l \in UserLabels : task[l].pc = "done"
    /\ status' = "done"
    /\ task' = [task EXCEPT ![0].pc = "done"]
    /\ UNCHANGED <<now, user, dbUser, issued, op, label, dbPlaylist, remote,
                   calls, pull, store, crit, run>>

(***************************************************************************)
(* syncFavoriteTracks: pull the user's favorite tracks into the database   *)
(***************************************************************************)
\* let limit = 5, and limit = 25 for the later batches
FirstLimit == 5
NextLimit == 25
\* Load the artists' information 50 at a time
ArtistsChunkSize == 50

\* the album and the artists the service reports for a track
AlbumOf(t) == (t + 1) \div 2
ArtistsOf(t) == {t, t + 1}

\* A plausible slip: the window starts one track late.
PageStartingLate(feed, offset, limit) ==
    SubSeq(feed, offset + 2, Min(offset + limit + 1, Len(feed)))

\* GET /v1/me/tracks?offset=&limit= : a window of the favourites, newest first
Page(feed, offset, limit) ==
    SubSeq(feed, offset + 1, Min(offset + limit, Len(feed)))

Range(s) == {s[i] : i \in 1 .. Len(s)}

\* the locals of syncFavoriteTracks, with the fetches it has been answered,
\* the pages it has gone through, the rows it has created, the windows
\* (offset, limit) of the favourites requests it has built, and the tracks
\* it has sent a create for and those the store has created
PullLocals(feed) ==
    [feed |-> feed, offset |-> 0, limit |-> 0, items |-> <<>>, fetches |-> 0,
     pages |-> 0, writes |-> 0, newArtistIds |-> <<>>, missingTracks |-> <<>>,
     windows |-> <<>>, attempted |-> <<>>, created |-> <<>>]

\* the first await of syncFavoriteTracks: the first favourites fetch
StartPull ==
    /\ op \in {"none", "pull"} /\ status \in {"idle", "done", "failed"}
    /\ run.n < MaxInvocations
    /\ op' = "pull"
    /\ status' = "running"
    /\ pull' = [PullLocals(pull.feed) EXCEPT
                   !.limit = FirstLimit, !.windows = <<<<0, FirstLimit>>>>]
    /\ task' = [task EXCEPT ![0] = spotifyFetch(IdleTask, "favorites", <<>>)]
    /\ run' = [Invocation EXCEPT !.n = run.n + 1]
    /\ UNCHANGED <<now, user, dbUser, issued, label, dbPlaylist, remote,
                   calls, store, crit>>

\* the favourites fetch is answered: TracksResponse.parse, the album
\* createMany is sent, and db.artist.findMany is awaited
FavoritesResponse ==
    /\ task[0].pc = "api" /\ task[0].kind = "favorites"
    /\ \E body \in Bodies :
          IF body = "match"
          THEN /\ task' = [task EXCEPT
                             ![0].pc = "artistFind",
                             ![0].response = "ok",
                             ![0].returned = TRUE,
                             ![0].accepted =
                                 [kind |-> "favorites", body |-> body]]
               /\ pull' = [pull EXCEPT
                             !.items = Page(pull.feed, pull.offset, pull.limit),
                             !.fetches = @ + 1]
               /\ UNCHANGED status
          ELSE /\ task' = [task EXCEPT ![0].pc = "failed",
                                       ![0].err = "validation",
                                       ![0].response = "ok",
                                       ![0].returned = TRUE]
               /\ pull' = [pull EXCEPT !.fetches = @ + 1]
               /\ status' = IF status = "running" THEN "failed" ELSE status
    /\ UNCHANGED <<now, user, dbUser, issued, op, label, dbPlaylist, remote,
                   calls, store, crit, run>>

\* lookupArtists: one turn of its loop, or its end when no chunk is left;
\* then db.artist.createMany is sent and Promise.all awaited
LookupChunk(tk, index) ==
    LET chunks == Chunk(pull.newArtistIds, ArtistsChunkSize)
    IN  IF index <= Len(chunks)
        THEN spotifyFetch([tk EXCEPT !.chunk = index], "artists", chunks[index])
        ELSE [tk EXCEPT !.pc = "refs"]

\* db.artist.findMany resolves: the artists not yet known are looked up
ArtistsFound ==
    /\ task[0].pc = "artistFind"
    /\ LET trackArtistIds == UNION {ArtistsOf(t) : t \in Range(pull.items)}
           newArtistIds == InIdOrder(trackArtistIds \ store.artists)
       IN  /\ pull' = [pull EXCEPT !.newArtistIds = newArtistIds]
           /\ task' = [task EXCEPT ![0] =
                          IF Len(newArtistIds) > 0
                          THEN spotifyFetch([@ EXCEPT !.chunk = 1], "artists",
                                   Chunk(newArtistIds, ArtistsChunkSize)[1])
                          ELSE [@ EXCEPT !.pc = "refs"]]
    /\ UNCHANGED <<now, user, dbUser, issued, op, status, label, dbPlaylist,
                   remote, calls, store, crit, run>>

\* an artists lookup is answered: ArtistsResponse.parse
ArtistsResponse ==
    /\ task[0].pc = "api" /\ task[0].kind = "artists"
    /\ \E body \in Bodies :
          IF body = "match"
          THEN /\ task' = [task EXCEPT ![0] =
                             LookupChunk([@ EXCEPT
                                 !.response = "ok", !.returned = TRUE,
                                 !.accepted =
                                     [kind |-> "artists", body |-> body]],
                                 task[0].chunk + 1)]
               /\ UNCHANGED status
          ELSE /\ task' = [task EXCEPT ![0].pc = "failed",
                                       ![0].err = "validation",
                                       ![0].response = "ok",
                                       ![0].returned = TRUE]
               /\ status' = IF status = "running" THEN "failed" ELSE status
    /\ UNCHANGED <<now, user, dbUser, issued, op, label, dbPlaylist, remote,
                   calls, pull, store, crit, run>>

\* A plausible slip: the artist createMany is not awaited, and has not been
\* carried out when the tracks are created.
RefsCreatedAlbumsOnly ==
    /\ task[0].pc = "refs"
    /\ store' = [store EXCEPT
                    !.albums = @ \cup {AlbumOf(t) : t \in Range(pull.items)}]
    /\ pull' = [pull EXCEPT !.writes = @
                    + Cardinality({AlbumOf(t) : t \in Range(pull.items)}
                                      \ store.albums)]
    /\ task' = [task EXCEPT ![0].pc = "trackFind"]
    /\ UNCHANGED <<now, user, dbUser, issued, op, status, label, dbPlaylist,
                   remote, calls, crit, run>>

\* the album and artist createMany have both resolved; db.track.findMany
\* is awaited
RefsCreated ==
    /\ task[0].pc = "refs"
    /\ store' = [store EXCEPT
                    !.albums = @ \cup {AlbumOf(t) : t \in Range(pull.items)},
                    !.artists = @ \cup Range(pull.newArtistIds)]
    /\ pull' = [pull EXCEPT !.writes = @
                    + Cardinality({AlbumOf(t) : t \in Range(pull.items)}
                                      \ store.albums)
                    + Len(pull.newArtistIds)]
    /\ task' = [task EXCEPT ![0].pc = "trackFind"]
    /\ UNCHANGED <<now, user, dbUser, issued, op, status, label, dbPlaylist,
                   remote, calls, crit, run>>

\* A plausible slip: the page is not compared with the rows of the store.
TracksFoundNoneExisting ==
    /\ task[0].pc = "trackFind"
    /\ pull' = [pull EXCEPT !.missingTracks = pull.items]
    /\ task' = [task EXCEPT ![0].pc = "trackCreate"]
    /\ UNCHANGED <<now, user, dbUser, issued, op, status, label, dbPlaylist,
                   remote, calls, store, crit, run>>

\* db.track.findMany resolves: the tracks of the page the user has not got
\* yet are the missing ones, and their creates are sent
TracksFound ==
    /\ task[0].pc = "trackFind"
    /\ LET existingTracks ==
               {r.spotifyId : r \in {x \in store.tracks :
                    x.userId = UserId /\ x.spotifyId \in Range(pull.items)}}
           missing(t) == t \notin existingTracks
       IN  pull' = [pull EXCEPT !.missingTracks = SelectSeq(pull.items, missing)]
    /\ task' = [task EXCEPT ![0].pc = "trackCreate"]
    /\ UNCHANGED <<now, user, dbUser, issued, op, status, label, dbPlaylist,
                   remote, calls, store, crit, run>>

\* A plausible slip: another batch is loaded while any track was missing.
TracksCreatedWhileAnyMissing ==
    /\ task[0].pc = "trackCreate"
    /\ store' = [store EXCEPT !.tracks = @ \cup
                    {[spotifyId |-> t, userId |-> UserId] :
                        t \in Range(pull.missingTracks)}]
    /\ IF Len(pull.missingTracks) > 0
       THEN /\ pull' = [pull EXCEPT !.offset = @ + pull.limit,
                                    !.limit = NextLimit, !.pages = @ + 1,
                                    !.writes = @ + Len(pull.missingTracks),
                                    !.windows = Append(@,
                                        <<pull.offset + pull.limit,
                                          NextLimit>>)]
            /\ task' = [task EXCEPT ![0] = spotifyFetch(@, "favorites", <<>>)]
            /\ UNCHANGED status
       ELSE /\ task' = [task EXCEPT ![0].pc = "done"]
            /\ status' = "done"
            /\ pull' = [pull EXCEPT !.pages = @ + 1,
                                    !.writes = @ + Len(pull.missingTracks)]
    /\ UNCHANGED <<now, user, dbUser, issued, op, label, dbPlaylist, remote,
                   calls, crit, run>>

\* A plausible slip: the tracks are created in one transaction that is
\* committed when the loop ends.
TracksCreatedAtTheEnd ==
    /\ task[0].pc = "trackCreate"
    /\ IF Len(pull.missingTracks) = pull.limit
       THEN /\ pull' = [pull EXCEPT !.offset = @ + pull.limit,
                                    !.limit = NextLimit, !.pages = @ + 1,
                                    !.writes = @ + Len(pull.missingTracks),
                                    !.windows = Append(@,
                                        <<pull.offset + pull.limit,
                                          NextLimit>>)]
            /\ task' = [task EXCEPT ![0] = spotifyFetch(@, "favorites", <<>>)]
            /\ UNCHANGED <<status, store>>
       ELSE /\ task' = [task EXCEPT ![0].pc = "done"]
            /\ status' = "done"
            /\ pull' = [pull EXCEPT !.pages = @ + 1,
                                    !.writes = @ + Len(pull.missingTracks)]
            /\ store' = [store EXCEPT !.tracks = @ \cup
                            {[spotifyId |-> pull.feed[i], userId |-> UserId] :
                                i \in 1 .. pull.offset}
                            \cup {[spotifyId |-> t, userId |-> UserId] :
                                     t \in Range(pull.missingTracks)}]
    /\ UNCHANGED <<now, user, dbUser, issued, op, label, dbPlaylist, remote,
                   calls, crit, run>>

\* A plausible slip: the number of missing tracks is compared with the first
\* limit whatever the limit of the batch was.
TracksCreatedFirstLimitTest ==
    /\ task[0].pc = "trackCreate"
    /\ store' = [store EXCEPT !.tracks = @ \cup
                    {[spotifyId |-> t, userId |-> UserId] :
                        t \in Range(pull.missingTracks)}]
    /\ IF Len(pull.missingTracks) = FirstLimit
       THEN /\ pull' = [pull EXCEPT !.offset = @ + pull.limit,
                                    !.limit = NextLimit, !.pages = @ + 1,
                                    !.writes = @ + Len(pull.missingTracks),
                                    !.windows = Append(@,
                                        <<pull.offset + pull.limit,
                                          NextLimit>>)]
            /\ task' = [task EXCEPT ![0] = spotifyFetch(@, "favorites", <<>>)]
            /\ UNCHANGED status
       ELSE /\ task' = [task EXCEPT ![0].pc = "done"]
            /\ status' = "done"
            /\ pull' = [pull EXCEPT !.pages = @ + 1,
                                    !.writes = @ + Len(pull.missingTracks)]
    /\ UNCHANGED <<now, user, dbUser, issued, op, label, dbPlaylist, remote,
                   calls, crit, run>>

\* A plausible slip: the limit is raised before the offset is advanced by it.
TracksCreatedLimitFirst ==
    /\ task[0].pc = "trackCreate"
    /\ store' = [store EXCEPT !.tracks = @ \cup
                    {[spotifyId |-> t, userId |-> UserId] :
                        t \in Range(pull.missingTracks)}]
    /\ IF Len(pull.missingTracks) = pull.limit
       THEN /\ pull' = [pull EXCEPT !.offset = @ + NextLimit,
                                    !.limit = NextLimit, !.pages = @ + 1,
                                    !.writes = @ + Len(pull.missingTracks),
                                    !.windows = Append(@,
                                        <<pull.offset + NextLimit,
                                          NextLimit>>)]
            /\ task' = [task EXCEPT ![0] = spotifyFetch(@, "favorites", <<>>)]
            /\ UNCHANGED status
       ELSE /\ task' = [task EXCEPT ![0].pc = "done"]
            /\ status' = "done"
            /\ pull' = [pull EXCEPT !.pages = @ + 1,
                                    !.writes = @ + Len(pull.missingTracks)]
    /\ UNCHANGED <<now, user, dbUser, issued, op, label, dbPlaylist, remote,
                   calls, crit, run>>

\* A plausible slip: a page none of whose tracks was missing sends the loop
\* back to the first window instead of ending it.
TracksCreatedStartsOver ==
    /\ task[0].pc = "trackCreate"
    /\ store' = [store EXCEPT !.tracks = @ \cup
                    {[spotifyId |-> t, userId |-> UserId] :
                        t \in Range(pull.missingTracks)}]
    /\ IF Len(pull.missingTracks) = pull.limit
       THEN /\ pull' = [pull EXCEPT !.offset = @ + pull.limit,
                                    !.limit = NextLimit, !.pages = @ + 1,
                                    !.writes = @ + Len(pull.missingTracks),
                                    !.windows = Append(@,
                                        <<pull.offset + pull.limit,
                                          NextLimit>>)]
            /\ task' = [task EXCEPT ![0] = spotifyFetch(@, "favorites", <<>>)]
            /\ UNCHANGED status
       ELSE IF Len(pull.missingTracks) = 0
       THEN /\ pull' = [PullLocals(pull.feed) EXCEPT
                          !.limit = FirstLimit,
                          !.windows = <<<<0, FirstLimit>>>>]
            /\ task' = [task EXCEPT ![0] =
                           spotifyFetch(IdleTask, "favorites", <<>>)]
            /\ UNCHANGED status
       ELSE /\ task' = [task EXCEPT ![0].pc = "done"]
            /\ status' = "done"
            /\ pull' = [pull EXCEPT !.pages = @ + 1,
                                    !.writes = @ + Len(pull.missingTracks)]
    /\ UNCHANGED <<now, user, dbUser, issued, op, label, dbPlaylist, remote,
                   calls, crit, run>>

\* Track.spotifyId is @unique: the create of a track whose external id some
\* row holds already, of whatever user, is rejected by the store
Taken(t) == \E r \in store.tracks : r.spotifyId = t

\* the creates have resolved, each with its row created unless the store
\* rejected it: if one was rejected Promise.all throws; else load another,
\* larger batch if all of the tracks were missing, else the pull is over
TracksCreated ==
    /\ task[0].pc = "trackCreate"
    /\ LET free(t) == ~Taken(t)
           made == SelectSeq(pull.missingTracks, free)
           went == [pull EXCEPT !.writes = @ + Len(made),
                                !.created = @ \o made,
                                !.attempted = @ \o pull.missingTracks]
       IN  /\ store' = [store EXCEPT !.tracks = @ \cup
                           {[spotifyId |-> t, userId |-> UserId] :
                               t \in Range(made)}]
           /\ IF made # pull.missingTracks
              THEN /\ task' = [task EXCEPT ![0].pc = "failed",
                                           ![0].err = "unique"]
                   /\ status' = "failed"
                   /\ pull' = went
              ELSE IF Len(pull.missingTracks) = pull.limit
              THEN /\ pull' = [went EXCEPT
                                 !.offset = @ + pull.limit,
                                 !.limit = NextLimit, !.pages = @ + 1,
                                 !.windows = Append(@,
                                     <<pull.offset + pull.limit, NextLimit>>)]
                   /\ task' = [task EXCEPT ![0] =
                                  spotifyFetch(@, "favorites", <<>>)]
                   /\ UNCHANGED status
              ELSE /\ task' = [task EXCEPT ![0].pc = "done"]
                   /\ status' = "done"
                   /\ pull' = [went EXCEPT !.pages = @ + 1]
    /\ UNCHANGED <<now, user, dbUser, issued, op, label, dbPlaylist, remote,
                   calls, crit, run>>

(***************************************************************************)
(* The states an invocation starts from.                                   *)
(***************************************************************************)
\* the criteria strings of the smart labels
ExplicitIsTrue == <<"explicit", "=", "true">>
ExplicitIsFalse == <<"explicit", "=", "false">>
Contradiction == ExplicitIsTrue \o <<"and">> \o ExplicitIsFalse
Unfinished == <<"explicit", "=">>
PushCriteria == {ExplicitIsTrue, ExplicitIsFalse, Contradiction, Unfinished}

\* the explicit track relations of the labels: the n latest favourites
Latest(n) == {t \in TrackIds : t > MaxTracks - n}
StaticRelations == {Latest(0), Latest(1), Latest(ChunkSize), Latest(MaxTracks)}
SmartRelations == {Latest(0), Latest(1)}
LabelRows ==
    [present : {TRUE}, smartCriteria : {NullCriteria}, tracks : StaticRelations]
        \cup [present : {TRUE}, smartCriteria : PushCriteria,
               tracks : SmartRelations]
NoLabel == [present |-> FALSE, smartCriteria |-> NullCriteria, tracks |-> {}]
\* the labels pushed along with the first one
SiblingRows ==
    {[present |-> TRUE, smartCriteria |-> NullCriteria,
      tracks |-> Latest(MaxTracks)],
     [present |-> TRUE, smartCriteria |-> Unfinished, tracks |-> Latest(1)]}

OtherTracks == {[spotifyId |-> ForeignTrack, userId |-> "other"]}

\* the labels of the invocations whose access token runs out
TokenRows == [present : {TRUE}, smartCriteria : {NullCriteria},
              tracks : {Latest(0), Latest(MaxTracks)}]

\* Three families of invocations: a label of any kind beside static and smart
\* siblings, with an access token that outlives the invocation; static labels
\* of one and of two upload calls, with a token that has run out or runs out
\* at the next tick; and no label, with a favourites feed of which the store
\* holds the oldest part.
\* the favourites of the user on the service, newest first
Feed(n) == Reverse([i \in 1 .. n |-> i])
\* the rows the store holds once the favourites 1 .. n have been pulled
Pulled(n) ==
    [tracks |-> {[spotifyId |-> t, userId |-> UserId] : t \in 1 .. n}
                    \cup OtherTracks,
     albums |-> {AlbumOf(t) : t \in 1 .. n},
     artists |-> UNION {ArtistsOf(t) : t \in 1 .. n}]

\* the first k labels have a playlist already, which holds a track
Playlists ==
    \E k \in 0 .. MaxLabels :
        /\ dbPlaylist = [l \in Labels |-> IF l <= k THEN l ELSE 0]
        /\ remote = [i \in 1 .. k |-> <<MaxTracks>>]

Init ==
    /\ \/ /\ now = MaxTime
          /\ user = [accessToken |-> 0, accessTokenExpiresAt |-> MaxTime]
          /\ label \in [Labels -> LabelRows \cup SiblingRows]
          /\ \A l \in Labels : l > 1 => label[l] \in SiblingRows
          /\ pull = PullLocals(Feed(MaxTracks))
          /\ store = Pulled(MaxTracks)
          /\ Playlists
       \/ /\ now = TickSeconds
          /\ user \in [accessToken : {0},
                        accessTokenExpiresAt : {0, TickSeconds}]
          /\ \E row \in TokenRows : label = [l \in Labels |-> row]
          /\ pull = PullLocals(Feed(MaxTracks))
          /\ store = Pulled(MaxTracks)
          /\ Playlists
       \/ /\ now = MaxTime
          /\ user \in [accessToken : {0},
                        accessTokenExpiresAt : {0, MaxTime}]
          /\ label = [l \in Labels |-> NoLabel]
          /\ \E n \in 0 .. MaxFeed : \E known \in 0 .. n :
                /\ pull = PullLocals(Feed(n))
                /\ store = Pulled(known)
          /\ dbPlaylist = [l \in Labels |-> 0]
          /\ remote = <<>>
    /\ dbUser = user
    /\ issued = 0
    /\ op = "none"
    /\ status = "idle"
    /\ task = [t \in Tasks |-> IdleTask]
    /\ calls = [l \in Labels |-> <<>>]
    /\ crit = [criteria |-> <<>>, parsed |-> ParserParse(<<>>),
               filter |-> Null, valid |-> FALSE, state |-> "off"]
    /\ run = Invocation

Next ==
    \/ Tick
    \/ StartPull
    \/ FavoritesResponse
    \/ ArtistsFound
    \/ ArtistsResponse
    \/ RefsCreated
    \/ TracksFound
    \/ TracksCreated
    \/ StartPush
    \/ PushProvisioned
    \/ PushDone
    \/ \E t \in Tasks :
          \/ TokenRejected(t)
          \/ TokenIssued(t)
          \/ DbUserUpdate(t)
          \/ RefreshDone(t)
          \/ SpotifyApiError(t)
    \/ \E l \in Labels :
          \/ CreateResponse(l)
          \/ SmartQueryThrows(l)
          \/ SmartQueryReturns(l)
          \/ UploadResponse(l)
          \/ RemoveResponse(l)

Spec == Init /\ [][Next]_vars

(***************************************************************************)
(* The pulls alone, from a store that holds some part of the feed.         *)
(* Every request is answered in the end and every continuation whose       *)
(* promise has settled is run by the event loop: weak fairness of the      *)
(* steps of the pull.                                                      *)
(***************************************************************************)
\* the rows the store holds when the user has the tracks S and no other
Holding(S) ==
    [tracks |-> {[spotifyId |-> t, userId |-> UserId] : t \in S}
                    \cup OtherTracks,
     albums |-> {AlbumOf(t) : t \in S},
     artists |-> UNION {ArtistsOf(t) : t \in S}]

\* the rows the store holds when another user has track t and this one none
HeldByOther(t) ==
    [tracks |-> {[spotifyId |-> t, userId |-> "other"]},
     albums |-> {AlbumOf(t)},
     artists |-> ArtistsOf(t)]

\* beside the stores of Init, those that hold one track of the feed only,
\* for this user or for another
InitPull ==
    /\ now = MaxTime
    /\ user \in [accessToken : {0}, accessTokenExpiresAt : {0, MaxTime}]
    /\ label = [l \in Labels |-> NoLabel]
    /\ \E n \in 0 .. MaxFeed :
          /\ pull = PullLocals(Feed(n))
          /\ \/ \E known \in 0 .. n : store = Pulled(known)
             \/ \E t \in 1 .. n : store = Holding({t})
             \/ \E t \in 1 .. n : store = HeldByOther(t)
    /\ dbPlaylist = [l \in Labels |-> 0]
    /\ remote = <<>>
    /\ dbUser = user
    /\ issued = 0
    /\ op = "none"
    /\ status = "idle"
    /\ task = [t \in Tasks |-> IdleTask]
    /\ calls = [l \in Labels |-> <<>>]
    /\ crit = [criteria |-> <<>>, parsed |-> ParserParse(<<>>),
               filter |-> Null, valid |-> FALSE, state |-> "off"]
    /\ run = Invocation

NextPull ==
    \/ StartPull
    \/ FavoritesResponse
    \/ ArtistsFound
    \/ ArtistsResponse
    \/ RefsCreated
    \/ TracksFound
    \/ TracksCreated
    \/ TokenRejected(0)
    \/ TokenIssued(0)
    \/ DbUserUpdate(0)
    \/ RefreshDone(0)
    \/ SpotifyApiError(0)

SpecPull == InitPull /\ [][NextPull]_vars /\ WF_vars(NextPull)

(***************************************************************************)
(* The criteria editor: a criteria string is compiled and validated before *)
(* a label is saved.                                                       *)
(***************************************************************************)
\* the example of the documentation and longer strings
SpecExample == ExplicitIsFalse \o <<"and", "artist", "=", "str">>
LongCriteria ==
    {SpecExample, Contradiction,
     <<"explicit", "=", "false", "and", "artist", "=", "badstr">>,
     <<"bogus", "=", "true", "or">> \o ExplicitIsTrue,
     <<"not", "(">> \o ExplicitIsTrue \o <<"or">> \o ExplicitIsFalse \o <<")">>,
     <<"(">> \o ExplicitIsTrue}
CriteriaStrings ==
    UNION {[1 .. n -> Tokens] : n \in 0 .. MaxCriteriaLen} \cup LongCriteria

InitCriteria ==
    /\ now = TickSeconds
    /\ user = [accessToken |-> 0, accessTokenExpiresAt |-> MaxTime]
    /\ dbUser = user
    /\ issued = 0
    /\ op = "none"
    /\ status = "idle"
    /\ task = [t \in Tasks |-> IdleTask]
    /\ label = [l \in Labels |-> NoLabel]
    /\ dbPlaylist = [l \in Labels |-> 0]
    /\ remote = <<>>
    /\ calls = [l \in Labels |-> <<>>]
    /\ pull = PullLocals(<<>>)
    /\ store = Pulled(0)
    /\ \E c \in CriteriaStrings :
          crit = [criteria |-> c, parsed |-> ParserParse(c), filter |-> Null,
                  valid |-> FALSE, state |-> "typed"]
    /\ run = Invocation

\* generatePrismaFilter(criteria) is called
Compile ==
    /\ crit.state = "typed"
    /\ crit' = [crit EXCEPT !.filter = generatePrismaFilter(crit.criteria),
                            !.state = "compiled"]
    /\ UNCHANGED <<now, user, dbUser, issued, op, status, task, label,
                   dbPlaylist, remote, calls, pull, store, run>>

\* validateSmartCriteria(criteria) is called
Validate ==
    /\ crit.state = "compiled"
    /\ crit' = [crit EXCEPT !.valid = validateSmartCriteria(crit.criteria),
                            !.state = "validated"]
    /\ UNCHANGED <<now, user, dbUser, issued, op, status, task, label,
                   dbPlaylist, remote, calls, pull, store, run>>

NextCriteria == Compile \/ Validate

SpecCriteria == InitCriteria /\ [][NextCriteria]_vars

(***************************************************************************)
(* Properties.                                                             *)
(***************************************************************************)
Validated == {"favorites", "artists", "create"}
IsUpload(call) == call.method \in {"replace", "append"}
Uploads(l) == SelectSeq(calls[l], IsUpload)
Smart(l) == label[l].present /\ label[l].smartCriteria # NullCriteria

RECURSIVE Flatten(_)
Flatten(seqs) ==
    IF seqs = <<>> THEN <<>> ELSE Head(seqs) \o Flatten(Tail(seqs))
UploadedUris(l) == Flatten([i \in 1 .. Len(Uploads(l)) |-> Uploads(l)[i].uris])
IsPrefix(a, b) == Len(a) <= Len(b) /\ a = SubSeq(b, 1, Len(a))
\* the upload loop of the content callback of l has ended
Uploaded(l) ==
    \/ task[l].pc = "done"
    \/ task[l].kind = "remove" /\ task[l].pc # "idle"

\* C1: the API request of a spotifyFetch call that found the token expired
\* leaves after exactly one refresh call and carries the token that refresh
\* was issued; the request of a call that found the token valid leaves with
\* no refresh call and carries the token the user object held at the call.
C1_RefreshBeforeRequest ==
    \A t \in Tasks :
        /\ task[t].pc \in {"token", "dbwrite", "dbdone"} =>
               task[t].sawExpired /\ task[t].requests = 0
        /\ task[t].requests >= 1 =>
               IF task[t].sawExpired
               THEN /\ task[t].refreshes = 1
                    /\ task[t].carried = task[t].fields.accessToken
                    /\ task[t].carried > task[t].tokenAtCall
               ELSE /\ task[t].refreshes = 0
                    /\ task[t].carried = task[t].tokenAtCall

C1_Witness ==
    \E t \in Tasks :
        /\ task[t].pc = "api" /\ task[t].sawExpired
        /\ task[t].refreshes = 1 /\ task[t].requests = 1
        /\ task[t].carried = task[t].fields.accessToken

\* C2: a refresh the token endpoint rejects fails the call and the
\* operation, is not tried again, and is followed by no API request of that
\* call; the step of the rejection leaves the user object, the user row and
\* the calls of the playlists as they were, and a failed task stays failed
\* for the rest of the invocation.
C2_RejectedRefreshIsFatal ==
    /\ [](\A t \in Tasks :
            /\ task[t].refreshes <= 1
            /\ task[t].err = "token" =>
                   /\ task[t].pc = "failed" /\ status = "failed"
                   /\ task[t].refreshes = 1 /\ task[t].requests = 0)
    /\ [][\A t \in Tasks :
            /\ task[t].pc = "token" /\ task'[t].pc \notin {"token", "dbwrite"} =>
                   /\ task'[t].pc = "failed" /\ task'[t].err = "token"
                   /\ user' = user /\ dbUser' = dbUser /\ calls' = calls
            /\ task[t].pc = "failed" /\ run'.n = run.n => task'[t] = task[t]]_vars

C2_Witness ==
    \E t \in Tasks :
        /\ task[t].err = "token" /\ task[t].pc = "failed"
        /\ task[t].requests = 0 /\ status = "failed"
        /\ user = dbUser /\ user.accessToken = 0

C4_EveryBodyValidated ==
    \A t \in Tasks : task[t].accepted.body # "mismatch"

\* C4, amended: the bodies of the favorites, artists and create calls are
\* accepted only if they match their schema, and one that does not match
\* fails the task and the operation (the bodies of the replace, append and
\* remove calls are not looked at).
C4_ReadBodiesValidated ==
    \A t \in Tasks :
        /\ task[t].accepted.kind \in Validated => task[t].accepted.body = "match"
        /\ task[t].err = "validation" =>
               /\ task[t].kind \in Validated
               /\ task[t].pc = "failed" /\ status = "failed"
        /\ task[t].pc = "created" => task[t].accepted.body = "match"

C4_Witness ==
    \E t \in Labels :
        /\ task[t].err = "validation" /\ task[t].kind = "create"
        /\ task[t].pc = "failed" /\ status = "failed"

\* C5: the compiler's answer is null when the parser reports failure and the
\* parser's filter otherwise, and validateSmartCriteria is true exactly when
\* that answer is not null.
C5_NullOnParseFailure ==
    /\ crit.state \in {"compiled", "validated"} =>
           /\ crit.parsed.success => crit.filter = crit.parsed.result
           /\ ~crit.parsed.success => crit.filter = Null
    /\ crit.state = "validated" => (crit.valid <=> crit.filter # Null)

C5_Witness ==
    /\ crit.state = "validated"
    /\ ~crit.parsed.success /\ crit.filter = Null /\ ~crit.valid
    /\ crit.criteria = <<"explicit", "=", "false", "and", "artist", "=", "badstr">>

\* C6 as claimed: no call for the playlist of a smart label whose criteria do
\* not compile carries a track of the user.
C6_InvalidCriteriaUploadNothing ==
    \A l \in Labels :
        Smart(l) /\ generatePrismaFilter(label[l].smartCriteria) = Null =>
            \A i \in 1 .. Len(calls[l]) :
                calls[l][i].uris = <<Uri(DummyTrackSpotifyId)>>

\* C7: a content callback whose criteria did not compile or whose query threw
\* fails only on an error of one of its calls; the push fails only if a call
\* of a task failed; and when the push has resolved every playlist has been
\* sent the whole of its tracks.
C7_CriteriaFailureNotFatal ==
    /\ \A l \in Labels :
           /\ task[l].err \in {"none", "api", "token", "validation"}
           /\ task[l].pc = "failed" => task[l].err # "none"
    /\ status = "failed" => \E t \in Tasks : task[t].pc = "failed"
    /\ op = "push" /\ status = "done" =>
           \A l \in UserLabels :
               /\ task[l].pc = "done"
               /\ UploadedUris(l) =
                      Uris(IF task[l].tracks = <<>>
                           THEN <<DummyTrackSpotifyId>> ELSE task[l].tracks)

C7_Witness ==
    /\ op = "push" /\ status = "done"
    /\ task[1].queryFailed
    /\ Smart(2) /\ ~validateSmartCriteria(label[2].smartCriteria)
    /\ ~task[2].queryFailed
    /\ Len(UploadedUris(2)) = MaxTracks

\* C8: the upload calls for the playlist of a label that resolved to n >= 1
\* tracks are a replace call followed by append calls, each of 1 to 50 URIs,
\* which together carry the resolved tracks in order; once the upload loop
\* has ended there are ceil(n / 50) of them and they carry all n tracks.
C8_ChunkedUploads ==
    \A l \in Labels :
        LET n == Len(task[l].tracks)
            ups == Uploads(l)
        IN  n >= 1 =>
              /\ \A i \in 1 .. Len(ups) :
                     /\ ups[i].method = (IF i = 1 THEN "replace" ELSE "append")
                     /\ Len(ups[i].uris) \in 1 .. 50
              /\ IsPrefix(UploadedUris(l), Uris(task[l].tracks))
              /\ Uploaded(l) =>
                     /\ Len(ups) = (n + 49) \div 50
                     /\ UploadedUris(l) = Uris(task[l].tracks)

C8_Witness ==
    \E l \in Labels :
        /\ task[l].pc = "done" /\ Len(task[l].tracks) = 51
        /\ Len(Uploads(l)) = 2
        /\ Len(Uploads(l)[1].uris) = 50 /\ Len(Uploads(l)[2].uris) = 1

\* C9 as claimed: when the content callback of a label that resolved to no
\* track has ended, the calls for its playlist are one replace call with the
\* placeholder and one removal call of it, and the playlist is empty.
C9_EmptyLabelRoundTrip ==
    \A l \in UserLabels :
        task[l].pc = "done" /\ task[l].tracks = <<>> =>
            /\ calls[l] =
                   <<[method |-> "replace",
                      uris |-> <<Uri(DummyTrackSpotifyId)>>],
                     [method |-> "remove",
                      uris |-> <<Uri(DummyTrackSpotifyId)>>]>>
            /\ remote[dbPlaylist[l]] = <<>>

\* C10 as claimed: two smart labels with the same criteria whose queries
\* ended the same way have had the same calls issued for their playlists,
\* whatever their explicit track relations are.
C10_RelationNotConsulted ==
    \A l1, l2 \in Labels :
        /\ Smart(l1) /\ Smart(l2)
        /\ label[l1].smartCriteria = label[l2].smartCriteria
        /\ task[l1].queryFailed = task[l2].queryFailed
        /\ task[l1].pc = "done" /\ task[l2].pc = "done"
        => calls[l1] = calls[l2]

\* C11: throughout a pull invoked after a pull that completed, over the same
\* feed, no album, artist or track row has been created, no create of a
\* track has been sent, and the store holds the rows it held when the second
\* pull began.
C11_SecondPullWritesNothing ==
    op = "pull" /\ run.n = 2 /\ run.prior.status = "done" =>
        pull.writes = 0 /\ pull.attempted = <<>> /\ store = run.store

C11_Witness ==
    /\ op = "pull" /\ run.n = 2 /\ status = "done"
    /\ run.prior.status = "done" /\ run.prior.pages = 3
    /\ pull.fetches = 1 /\ pull.writes = 0
    /\ Len(pull.feed) = MaxFeed

\* the tracks the user had stored when the invocation began
KnownAtStart ==
    {r.spotifyId : r \in {x \in run.store.tracks : x.userId = UserId}}

\* C12: no page the pull has gone past held a track the user had stored
\* already, so no favourites fetch follows a page that holds one; and a pull
\* over a feed whose first page of 5 is all new and whose next page of 25
\* holds a stored track has been answered exactly two fetches when it ends.
C12_StopsAtFirstKnownPage ==
    op = "pull" =>
        /\ \A i \in 1 .. Min(pull.offset, Len(pull.feed)) :
               pull.feed[i] \notin KnownAtStart
        /\ pull.fetches <= pull.pages + 1
        /\ /\ status = "done"
           /\ Len(pull.feed) >= FirstLimit
           /\ Range(Page(pull.feed, 0, FirstLimit)) \cap KnownAtStart = {}
           /\ Range(Page(pull.feed, FirstLimit, NextLimit)) \cap KnownAtStart
                  # {}
           => pull.fetches = 2

C12_Witness ==
    /\ op = "pull" /\ status = "done" /\ run.n = 1
    /\ Len(Page(pull.feed, 0, FirstLimit)) = 5
    /\ Len(Page(pull.feed, FirstLimit, NextLimit)) = 25
    /\ Range(Page(pull.feed, 0, FirstLimit)) \cap KnownAtStart = {}
    /\ Cardinality(Range(Page(pull.feed, FirstLimit, NextLimit))
                       \cap KnownAtStart) = 1
    /\ pull.fetches = 2

\* C13: at most one playlist-create call is issued for a label and none for
\* a label that had a playlist when the push was invoked; the mappings that
\* existed then are never changed; and when the push has completed every
\* label of the user has a mapping, and exactly one create call was issued
\* for each label that had none.
C13_EveryLabelProvisioned ==
    op = "push" =>
        \A l \in UserLabels :
            /\ run.creates[l] <= 1
            /\ run.dbPlaylist[l] # 0 =>
                   run.creates[l] = 0 /\ dbPlaylist[l] = run.dbPlaylist[l]
            /\ status = "done" =>
                   /\ dbPlaylist[l] # 0
                   /\ run.dbPlaylist[l] = 0 => run.creates[l] = 1
                   /\ \A k \in UserLabels \ {l} : dbPlaylist[k] # dbPlaylist[l]

C13_Witness ==
    /\ op = "push" /\ status = "done"
    /\ run.dbPlaylist[1] # 0 /\ run.dbPlaylist[2] = 0
    /\ run.creates = [l \in Labels |-> IF l = 2 THEN 1 ELSE 0]
    /\ dbPlaylist[1] = run.dbPlaylist[1] /\ dbPlaylist[2] # 0

\* a refreshAccessToken call of some task is under way
Refreshing == \E t \in Tasks : task[t].pc \in {"token", "dbwrite", "dbdone"}

\* C14 as claimed: once the refreshes of an invocation have all completed,
\* the access token and expiry of the user object are those of the user row,
\* which are those of the refresh persisted last.
C14_SingleTokenVersion ==
    issued >= 1 /\ ~Refreshing => user = dbUser

\* the rows of the store hold track t of the user, its album and its artists
Stored(t) ==
    /\ [spotifyId |-> t, userId |-> UserId] \in store.tracks
    /\ AlbumOf(t) \in store.albums
    /\ ArtistsOf(t) \subseteq store.artists

\* C15: a pull one of whose favourites fetches failed (the request, the
\* refresh before it, or the validation of its body) has failed; the store
\* then holds the rows it began with and the track, album and artist rows of
\* every page before the failed one; and for the rest of the invocation no
\* fetch is issued and no row is written.
C15_FailedPageKeepsEarlierPages ==
    /\ [](op = "pull" /\ task[0].pc = "failed" /\ task[0].kind = "favorites"
            /\ task[0].err \in {"api", "token", "validation"}
            => /\ status = "failed"
               /\ pull.fetches <= pull.pages + 1
               /\ run.store.tracks \subseteq store.tracks
               /\ run.store.albums \subseteq store.albums
               /\ run.store.artists \subseteq store.artists
               /\ \A i \in 1 .. pull.offset : Stored(pull.feed[i]))
    /\ [][op = "pull" /\ status = "failed" /\ run'.n = run.n
            => store' = store /\ pull' = pull /\ task' = task]_vars

C15_Witness ==
    /\ op = "pull" /\ status = "failed" /\ run.n = 1
    /\ task[0].pc = "failed" /\ task[0].kind = "favorites"
    /\ task[0].err = "validation"
    /\ pull.pages = 2 /\ pull.fetches = 3 /\ pull.offset = 30
    /\ Len(pull.feed) > 30
    /\ KnownAtStart = {}
    /\ \A i \in 1 .. 30 : Stored(pull.feed[i])
    /\ ~Stored(pull.feed[31])

\* C16 as claimed: when a pull that failed after going through one page or
\* more has been invoked again over the same feed and has completed, every
\* track of the feed is stored for the user.
C16_ReinvokedPullCompletesFeed ==
    /\ op = "pull" /\ run.n = 2 /\ status = "done"
    /\ run.prior.status = "failed" /\ run.prior.pages >= 1
    => \A i \in 1 .. Len(pull.feed) :
           [spotifyId |-> pull.feed[i], userId |-> UserId] \in store.tracks

\* the effective track set of a label: its explicit relation if it is static,
\* the tracks of the user matching its criteria if it is smart (none when
\* the criteria do not compile)
EffectiveTracks(l) ==
    IF ~Smart(l) THEN label[l].tracks
    ELSE IF ~validateSmartCriteria(label[l].smartCriteria) THEN {}
    ELSE {r.spotifyId : r \in {x \in store.tracks :
              Matches(Spread(UserId,
                             generatePrismaFilter(label[l].smartCriteria)), x)}}

\* C17 as claimed: when the push has completed, the playlist of every label
\* whose query did not throw holds the tracks of the label's effective track
\* set and no other track, the placeholder included.
C17_PlaylistHoldsEffectiveSet ==
    op = "push" /\ status = "done" =>
        \A l \in UserLabels :
            ~task[l].queryFailed =>
                Range(remote[dbPlaylist[l]]) = EffectiveTracks(l)

\* the playlist-tracks calls for the playlist of l that are in flight
InFlight(l) == Len(calls[l]) - run.answered[l]

\* C18: at most one call for a playlist is in flight at any time (a call
\* leaves only when the calls before it have been answered); the calls for a
\* playlist are a replace call, then append calls carrying the chunks in
\* order, then at most one removal call, which is the last.
C18_CallsOfAPlaylistSequential ==
    op = "push" =>
        \A l \in Labels :
            /\ InFlight(l) \in {0, 1}
            /\ \A i \in 1 .. Len(calls[l]) :
                   /\ i = 1 => calls[l][i].method = "replace"
                   /\ i > 1 => calls[l][i].method \in {"append", "remove"}
                   /\ calls[l][i].method = "remove" => i = Len(calls[l])
                   /\ calls[l][i].method # "remove" =>
                          calls[l][i].uris =
                              Uris(UploadChunks(task[l].tracks)[i])

C18_Witness ==
    /\ op = "push" /\ status = "running"
    /\ task[1].pc = "api" /\ task[1].kind = "append"
    /\ run.answered[1] = 1 /\ InFlight(1) = 1
    /\ task[2].pc = "api" /\ task[2].kind = "replace"
    /\ run.answered[2] = 0 /\ InFlight(2) = 1

\* C19 as claimed: no removal call is issued for the playlist of a label,
\* static or smart, that resolved to one track or more.
C19_RemovalOnlyWhenResolvedEmpty ==
    \A l \in UserLabels :
        Len(task[l].tracks) >= 1 =>
            \A i \in 1 .. Len(calls[l]) : calls[l][i].method # "remove"

\* the step that ends a turn of the pull's loop goes on with another fetch,
\* of the window after this one, or ends the pull
Repeats ==
    /\ task'[0].kind = "favorites" /\ task'[0].pc \in {"api", "token"}
    /\ status' = "running"
    /\ pull'.offset = pull.offset + pull.limit /\ pull'.limit = NextLimit
Ends == task'[0].pc = "done" /\ status' = "done"

RECURSIVE SumOfLimits(_, _)
SumOfLimits(windows, n) ==
    IF n = 0 THEN 0 ELSE windows[n][2] + SumOfLimits(windows, n - 1)

\* C21: the first favourites request of a pull asks for 5 tracks from offset
\* 0, every later one for 25, and the offset of each is the sum of the
\* limits of the requests before it: (0, 5), (5, 25), (30, 25), ...; the
\* request being built or answered is the last of them.
C21_ContiguousWindows ==
    op = "pull" =>
        /\ Len(pull.windows) >= 1
        /\ \A i \in 1 .. Len(pull.windows) :
               /\ pull.windows[i][2] = (IF i = 1 THEN 5 ELSE 25)
               /\ pull.windows[i][1] = SumOfLimits(pull.windows, i - 1)
        /\ pull.windows[Len(pull.windows)] = <<pull.offset, pull.limit>>
        /\ pull.fetches <= Len(pull.windows)

C21_Witness ==
    /\ op = "pull" /\ pull.fetches = 3
    /\ pull.windows = <<<<0, 5>>, <<5, 25>>, <<30, 25>>>>
    /\ Len(pull.items) = 1

\* C22: a pull that has been invoked completes or fails in the end, whatever
\* the feed and the part of it the store holds; and it is never answered
\* more favourites fetches than the feed has tracks, plus one.
C22_PullTerminates ==
    /\ [](op = "pull" /\ status = "running"
            => <>(status \in {"done", "failed"}))
    /\ [](op = "pull" => pull.fetches <= Len(pull.feed) + 1)

C22_Witness ==
    /\ op = "pull" /\ status = "done" /\ run.n = 1
    /\ Len(pull.feed) = FirstLimit + NextLimit
    /\ KnownAtStart = {}
    /\ pull.fetches = 3 /\ pull.items = <<>>

\* the tracks the user had stored when the pull began are the favourites
\* older than some point of the feed
SuffixAtStart ==
    \E k \in 0 .. Len(pull.feed) :
        KnownAtStart = {pull.feed[i] : i \in (k + 1) .. Len(pull.feed)}

\* the number of times x occurs in seq
Count(seq, x) == Cardinality({i \in 1 .. Len(seq) : seq[i] = x})

\* C23: when a pull that began with the user's stored tracks being the
\* favourites older than some point of the feed has completed, every track
\* of the feed is stored for the user, and once: it was stored at the start
\* and not created again, or it was created exactly once.
C23_SuffixStoreIsCompleted ==
    op = "pull" /\ status = "done" /\ SuffixAtStart =>
        \A i \in 1 .. Len(pull.feed) :
            /\ [spotifyId |-> pull.feed[i], userId |-> UserId] \in store.tracks
            /\ Count(pull.created, pull.feed[i])
                   + (IF pull.feed[i] \in KnownAtStart THEN 1 ELSE 0) = 1

C23_Witness ==
    /\ op = "pull" /\ status = "done" /\ run.n = 1
    /\ Len(pull.feed) = MaxFeed
    /\ KnownAtStart = {pull.feed[Len(pull.feed)]}
    /\ Len(pull.created) = MaxFeed - 1
    /\ \A i \in 1 .. Len(pull.feed) :
           [spotifyId |-> pull.feed[i], userId |-> UserId] \in store.tracks

\* C24: a step that creates track rows finds the album row and the artist
\* rows of each of them in the store already, and creates no album or
\* artist row itself; every track the pull has created has its album and
\* its artists in the store.
C24_RefsBeforeTracks ==
    /\ [][\A r \in store'.tracks \ store.tracks :
             /\ AlbumOf(r.spotifyId) \in store.albums
             /\ ArtistsOf(r.spotifyId) \subseteq store.artists
             /\ store'.albums = store.albums
             /\ store'.artists = store.artists]_vars
    /\ [](\A i \in 1 .. Len(pull.created) :
             /\ AlbumOf(pull.created[i]) \in store.albums
             /\ ArtistsOf(pull.created[i]) \subseteq store.artists)

C24_Witness ==
    /\ op = "pull" /\ status = "running" /\ run.n = 1
    /\ Len(pull.created) = FirstLimit + NextLimit
    /\ run.store.albums = {} /\ run.store.artists = {}
    /\ \A i \in 1 .. Len(pull.created) :
           /\ AlbumOf(pull.created[i]) \in store.albums
           /\ ArtistsOf(pull.created[i]) \subseteq store.artists

\* C25 as claimed: every track the pull has sent a create for was created,
\* none being stored under its external id already, and the pull has not
\* failed on the uniqueness of the external id.
C25_NoInsertOfStoredTrack ==
    op = "pull" =>
        pull.attempted = pull.created /\ task[0].err # "unique"

\* no callback of the push has a request or a query under way
Settled ==
    \A l \in Labels : task[l].pc \in {"idle", "created", "failed", "done"}

\* C26 as claimed: when an invocation of the push has ended, completed or
\* failed, and its callbacks have settled, at most one playlist was created
\* for each label and every playlist there is on the service is mapped to a
\* label by a Playlist row.
C26_CreatedPlaylistsAreMapped ==
    op = "push" /\ status \in {"done", "failed"} /\ Settled =>
        /\ \A l \in Labels : run.creates[l] <= 1
        /\ \A id \in 1 .. Len(remote) : \E l \in Labels : dbPlaylist[l] = id

\* C27 as claimed: once the push has been rejected, no step of the
\* invocation issues a call for a playlist or a playlist-create call.
C27_ErrorStopsAllCalls ==
    [][op = "push" /\ status = "failed"
       => calls' = calls /\ run'.creates = run.creates]_vars

\* C27, amended: the push is rejected as soon as a callback has failed and
\* stays rejected, and the failed callback does nothing more; the callbacks
\* of the other playlists are not cancelled: one that ends has issued all of
\* its upload calls, and its removal call if the label's relation is empty.
C27_ErrorRejectsPushOnly ==
    /\ [](op = "push" =>
            /\ (\E t \in Tasks : task[t].pc = "failed") => status = "failed"
            /\ \A l \in UserLabels :
                   task[l].pc = "done" =>
                       /\ UploadedUris(l) =
                              Uris(IF task[l].tracks = <<>>
                                   THEN <<DummyTrackSpotifyId>>
                                   ELSE task[l].tracks)
                       /\ label[l].tracks = {} =>
                              calls[l][Len(calls[l])].method = "remove")
    /\ [][op = "push" /\ status = "failed" =>
            /\ status' = "failed"
            /\ \A t \in Tasks :
                   task[t].pc = "failed" => task'[t] = task[t]]_vars

C27_Witness ==
    /\ op = "push" /\ status = "failed"
    /\ task[1].pc = "failed" /\ task[1].err = "api"
    /\ task[1].kind = "replace"
    /\ task[2].pc = "done" /\ run.late = 2
    /\ Len(calls[2]) = 2 /\ run.answered[2] = 2

====
